---- MODULE Spec2Model ----
(***************************************************************************)
(* Model of plugins/modules/gitlab_instance_variable.py: one invocation of *)
(* the module (main -> native_python_main) reconciling a desired list of   *)
(* instance variables against the variables held by a GitLab instance,     *)
(* followed by re-runs of the same task against the resulting remote.      *)
(* Every call that reaches the remote API is one step of the model.        *)
(***************************************************************************)
EXTENDS Integers, Sequences, FiniteSets, TLC

(* ---------------------------------------------------------------- bounds *)
MaxRequested == 2      \* longest desired list (module.params['variables'])
MaxRemote    == 2      \* most variables on the remote before the first run
MaxFailures  == 1      \* most API calls that fail for a transport reason
MaxRuns      == 2      \* invocations of the task in a row
PageSize     == 1      \* entries the remote returns per page of a listing
MaxListed    == 1      \* longest desired list of a run followed page by page

(* ------------------------------------------------------------ the values *)
\* Python's None, where a dict has no such key or the option was not given.
NoneVal == "<None>"

DefaultAttrs ==
    [value |-> "1", masked |-> FALSE, protected |-> FALSE, variable_type |-> "env_var"]

\* The attribute combinations of the model: the defaults, and each attribute
\* changed on its own.
AttrVariants ==
    { DefaultAttrs,
      [DefaultAttrs EXCEPT !.value = "2"],
      [DefaultAttrs EXCEPT !.masked = TRUE],
      [DefaultAttrs EXCEPT !.protected = TRUE],
      [DefaultAttrs EXCEPT !.variable_type = "file"] }

MkVar(k, s, a) ==
    [key |-> k, environment_scope |-> s, value |-> a.value, masked |-> a.masked,
     protected |-> a.protected, variable_type |-> a.variable_type]

\* The (key, environment_scope) pairs of the model, in the order the remote
\* created them.
Pairs == << <<"FOO", "*">>, <<"FOO", "prod">>, <<"BAR", "*">> >>

\* The variables a remote can hold in the model: FOO in scope * with every
\* attribute combination, FOO in scope prod with two values, BAR with the
\* defaults.
RemoteUniverse ==
    { MkVar("FOO", "*", a) : a \in AttrVariants }
      \cup { MkVar("FOO", "prod", DefaultAttrs),
             MkVar("FOO", "prod", [DefaultAttrs EXCEPT !.value = "2"]),
             MkVar("BAR", "*", DefaultAttrs) }

\* An element of module.params['variables'], after the argument spec has
\* filled in the defaults of masked, protected, environment_scope and
\* variable_type; value has no default.
MkRaw(v) ==
    [name |-> v.key, value |-> v.value, masked |-> v.masked, protected |-> v.protected,
     environment_scope |-> v.environment_scope, variable_type |-> v.variable_type]

RawUniverse ==
    { MkRaw(v) : v \in RemoteUniverse }
      \cup { [MkRaw(MkVar("FOO", "*", DefaultAttrs)) EXCEPT !.value = NoneVal] }

(* --------------------------------------------------------------- helpers *)
\* dict.get(field)
Get(d, f) == IF f \in DOMAIN d THEN d[f] ELSE NoneVal

\* x in lst
In(x, lst) == \E i \in 1..Len(lst) : lst[i] = x

\* [x for x in lst if P(x)]
Filter(lst, P(_)) == SelectSeq(lst, P)

\* [f(x) for x in lst]
Map(lst, f(_)) == [i \in 1..Len(lst) |-> f(lst[i])]

KeyScope(d) == <<Get(d, "key"), Get(d, "environment_scope")>>

KeyScopes(lst) == { KeyScope(lst[i]) : i \in 1..Len(lst) }

\* No two entries of lst share (key, environment_scope).
DistinctKeyScope(lst) ==
    \A i, j \in 1..Len(lst) : KeyScope(lst[i]) = KeyScope(lst[j]) => i = j

\* Sequences over S of length at most n.
SeqUpTo(S, n) == UNION { [1..k -> S] : k \in 0..n }

(* ------------------------------------------------------- the remote API  *)
\* instance.variables.list(page=n): page n of the remote's variables.
ListPage(rem, n) ==
    SubSeq(rem, (n - 1) * PageSize + 1,
           IF n * PageSize < Len(rem) THEN n * PageSize ELSE Len(rem))

RECURSIVE ListFrom(_, _)
ListFrom(rem, page_nb) ==
    IF Len(ListPage(rem, page_nb)) > 0
    THEN ListPage(rem, page_nb) \o ListFrom(rem, page_nb + 1)
    ELSE <<>>

list_all_instance_variables(rem) == ListFrom(rem, 1)

\* The remote accepts a create unless it holds the (key, environment_scope).
CreateAccepted(rem, var) == KeyScope(var) \notin KeyScopes(rem)

\* The remote accepts a delete when it holds the (key, environment_scope).
DeleteAccepted(rem, var) == KeyScope(var) \in KeyScopes(rem)

\* CreateBody, with masked left out of the body (the remote then stores its
\* default).
CreateBodyNoMasked(var_obj) ==
    [key |-> Get(var_obj, "key"), value |-> Get(var_obj, "value"),
     masked |-> FALSE, protected |-> Get(var_obj, "protected"),
     variable_type |-> Get(var_obj, "variable_type"),
     environment_scope |-> Get(var_obj, "environment_scope")]

\* The body create_variable posts.
CreateBody(var_obj) ==
    LET var == [key |-> Get(var_obj, "key"), value |-> Get(var_obj, "value"),
                masked |-> Get(var_obj, "masked"), protected |-> Get(var_obj, "protected"),
                variable_type |-> Get(var_obj, "variable_type")]
    IN  IF Get(var_obj, "environment_scope") # NoneVal
        THEN [f \in DOMAIN var \cup {"environment_scope"} |->
                 IF f = "environment_scope" THEN var_obj.environment_scope ELSE var[f]]
        ELSE var

RemoteCreate(rem, var_obj) == Append(rem, CreateBody(var_obj))

\* RemoteDelete without the environment_scope filter: every scope of the key.
RemoteDeleteAnyScope(rem, var_obj) ==
    LET gone(x) == Get(x, "key") # Get(var_obj, "key") IN Filter(rem, gone)

RemoteDelete(rem, var_obj) ==
    LET gone(x) == KeyScope(x) # KeyScope(var_obj) IN Filter(rem, gone)

\* filter_returned_variables: the attribute dicts of the listed objects, cut
\* down to the six attributes of a variable.
Known == {"key", "value", "masked", "protected", "variable_type", "environment_scope"}

filter_returned_variables(gitlab_keys) ==
    LET cut(x) == [f \in DOMAIN x \cap Known |-> x[f]] IN Map(gitlab_keys, cut)

(* ------------------------------------------------------- native_python_main *)
\* str(value)
Str(v) == IF v = NoneVal THEN "None" ELSE v

\* lines 253-263: name becomes key, value becomes a string; the other
\* attributes already carry their defaults.
Normalize(item) ==
    [key |-> item.name, value |-> Str(Get(item, "value")),
     masked |-> item.masked, protected |-> item.protected,
     environment_scope |-> IF Get(item, "environment_scope") = NoneVal THEN "*"
                           ELSE item.environment_scope,
     variable_type |-> IF Get(item, "variable_type") = NoneVal THEN "env_var"
                       ELSE item.variable_type]

\* item.pop('value'); item.pop('variable_type')
Strip(item) == [f \in DOMAIN item \ {"value", "variable_type"} |-> item[f]]

\* compare(): what check mode reports for state present.
compare(requested, existing, state) ==
    LET existing_key_scope_vars ==
            Map(existing, LAMBDA item : [key |-> Get(item, "key"),
                                         environment_scope |-> Get(item, "environment_scope")])
        compare_item(var) == [key |-> Get(var, "name"),
                              environment_scope |-> Get(var, "environment_scope")]
        isUntouched(var) == In(var, existing)
        isUpdated(var) == ~In(var, existing) /\ In(compare_item(var), existing_key_scope_vars)
        isAdded(var) == ~In(var, existing) /\ ~In(compare_item(var), existing_key_scope_vars)
    IN  IF state = "present"
        THEN [untouched |-> Filter(requested, isUntouched),
              updated |-> Filter(requested, isUpdated),
              added |-> Filter(requested, isAdded)]
        ELSE [untouched |-> <<>>, updated |-> <<>>, added |-> <<>>]

EmptyReturn == [added |-> <<>>, updated |-> <<>>, removed |-> <<>>, untouched |-> <<>>]

NoResult == [returned |-> FALSE]

VARIABLES
    module,               \* module.params and module.check_mode
    remote,               \* the variables the GitLab instance holds, oldest first
    pc,                   \* where the invocation stands
    before,               \* native_python_main's before
    existing_variables,
    requested_variables,
    compared,             \* (untouched, updated, added) of compare()
    todo,                 \* what is left of the list the current loop runs over
    return_value,
    result,               \* what exit_json is given
    calls,                \* create and delete calls sent to the remote in this run
    failures,             \* API calls failed for a transport reason so far
    run,                  \* number of the invocation
    requests,             \* authentication and list requests sent in this run
    listing               \* list_all_instance_variables: where its loop stands

vars == <<module, remote, pc, before, existing_variables, requested_variables,
          compared, todo, return_value, result, calls, failures, run, requests,
          listing>>

\* A request that reads: the authentication, or one page of a listing.
Request(op, page) == [op |-> op, page |-> page]

\* The pages one call of list_all_instance_variables asks for.
RECURSIVE PagesFrom(_, _)
PagesFrom(rem, page_nb) ==
    IF Len(ListPage(rem, page_nb)) > 0
    THEN <<Request("list", page_nb)>> \o PagesFrom(rem, page_nb + 1)
    ELSE <<Request("list", page_nb)>>

ListRequests(rem) == PagesFrom(rem, 1)

\* No call of list_all_instance_variables under way or done.
IdleListing ==
    [at |-> "idle", n |-> 0, page_nb |-> 0, variables |-> <<>>, vars_page |-> <<>>]

\* Position of a variable's pair in Pairs.
Rank(v) == CHOOSE i \in 1..Len(Pairs) : Pairs[i] = <<v.key, v.environment_scope>>

\* Remote contents before the first run: at most one variable per
\* (key, environment_scope), listed in the order of Pairs.
RemoteStates ==
    { r \in SeqUpTo(RemoteUniverse, MaxRemote) :
        \A i, j \in 1..Len(r) : i < j => Rank(r[i]) < Rank(r[j]) }

Init ==
    /\ module \in [state : {"present", "absent"}, purge : BOOLEAN, check_mode : BOOLEAN,
                   variables : SeqUpTo(RawUniverse, MaxRequested)]
    /\ remote \in RemoteStates
    /\ pc = "main"
    /\ before = <<>>
    /\ existing_variables = <<>>
    /\ requested_variables = <<>>
    /\ compared = compare(<<>>, <<>>, "absent")
    /\ todo = <<>>
    /\ return_value = EmptyReturn
    /\ result = NoResult
    /\ calls = <<>>
    /\ failures = 0
    /\ run = 1
    /\ requests = <<>>
    /\ listing = IdleListing

\* Validate, with the check of value after gitlab_authentication.
ValidateAfterAuth ==
    /\ pc = "main"
    /\ pc' = IF module.state = "present"
                /\ \E i \in 1..Len(module.variables) : module.variables[i].value = NoneVal
             THEN "fail_json" ELSE "native_python_main"
    /\ requests' = Append(requests, Request("auth", 0))
    /\ UNCHANGED <<module, remote, before, existing_variables, requested_variables,
                   compared, todo, return_value, result, calls, failures, run, listing>>

\* main, lines 359-372: a desired variable without value fails state present
\* before the remote is contacted; otherwise gitlab_authentication.
Validate ==
    /\ pc = "main"
    /\ pc' = IF module.state = "present"
                /\ \E i \in 1..Len(module.variables) : module.variables[i].value = NoneVal
             THEN "fail_json" ELSE "native_python_main"
    /\ requests' = IF pc' = "fail_json" THEN requests
                   ELSE Append(requests, Request("auth", 0))
    /\ UNCHANGED <<module, remote, before, existing_variables, requested_variables,
                   compared, todo, return_value, result, calls, failures, run, listing>>

\* The outcomes of a call the remote would accept (TRUE) or reject (FALSE): an
\* accepted call can still fail for a transport reason.
Outcomes(accepted) ==
    IF accepted /\ failures < MaxFailures THEN {TRUE, FALSE} ELSE {accepted}

\* Whether create_variable returns (TRUE) or raises (FALSE).
CreateOutcomes(var_obj) ==
    IF module.check_mode THEN {TRUE} ELSE Outcomes(CreateAccepted(remote, var_obj))

\* Whether delete_variable returns (TRUE) or raises (FALSE).
DeleteOutcomes(var_obj) ==
    IF module.check_mode THEN {TRUE} ELSE Outcomes(DeleteAccepted(remote, var_obj))

Call(op, var_obj, ok) ==
    [op |-> op, key |-> Get(var_obj, "key"),
     environment_scope |-> Get(var_obj, "environment_scope"), ok |-> ok]

\* create_variable without its check-mode guard.
create_variable_unguarded(var_obj, ok) ==
    /\ calls' = Append(calls, Call("create", var_obj, ok))
    /\ failures' = failures
    /\ remote' = IF ok /\ CreateAccepted(remote, var_obj)
                 THEN RemoteCreate(remote, var_obj) ELSE remote

\* create_variable: nothing in check mode, else instance.variables.create.
create_variable(var_obj, ok) ==
    IF module.check_mode
    THEN UNCHANGED <<remote, calls, failures>>
    ELSE /\ calls' = Append(calls, Call("create", var_obj, ok))
         /\ failures' = IF ~ok /\ CreateAccepted(remote, var_obj) THEN failures + 1
                        ELSE failures
         /\ remote' = IF ok /\ CreateAccepted(remote, var_obj)
                      THEN RemoteCreate(remote, var_obj) ELSE remote

\* delete_variable with its check-mode test the wrong way round.
delete_variable_inverted(var_obj, ok) ==
    IF ~module.check_mode
    THEN UNCHANGED <<remote, calls, failures>>
    ELSE /\ calls' = Append(calls, Call("delete", var_obj, ok))
         /\ failures' = failures
         /\ remote' = IF ok THEN RemoteDelete(remote, var_obj) ELSE remote

\* delete_variable: nothing in check mode, else instance.variables.delete.
delete_variable(var_obj, ok) ==
    IF module.check_mode
    THEN UNCHANGED <<remote, calls, failures>>
    ELSE /\ calls' = Append(calls, Call("delete", var_obj, ok))
         /\ failures' = IF ~ok /\ DeleteAccepted(remote, var_obj) THEN failures + 1
                        ELSE failures
         /\ remote' = IF ok THEN RemoteDelete(remote, var_obj) ELSE remote

\* Added, appending to the wrong list.
AddedToUpdated(rv, item) == [rv EXCEPT !.updated = Append(@, item)]

\* return_value['added'].append(item), and the like.
Added(rv, item) == [rv EXCEPT !.added = Append(@, item)]
Updated(rv, item) == [rv EXCEPT !.updated = Append(@, item)]
Removed(rv, item) == [rv EXCEPT !.removed = Append(@, item)]

\* add_or_update without its filter.
add_or_update_all(requested, existing) == requested

\* [x for x in requested_variables if x not in existing_variables]
add_or_update(requested, existing) ==
    LET missing(x) == ~In(x, existing) IN Filter(requested, missing)

\* absent_remove taking the purge=false branch whatever purge is.
absent_remove_requested(requested, existing, purge) ==
    LET found(x) == In(x, existing) IN Filter(requested, found)

\* State absent: what is deleted (lines 299-308).
absent_remove(requested, existing, purge) ==
    LET found(x) == In(x, existing)
    IN  IF ~purge THEN Filter(requested, found) ELSE existing

\* purge_remove with its test the wrong way round.
purge_remove_declared(existing, requested) ==
    LET declared(x) == In(x, requested) IN Filter(existing, declared)

\* State present with purge: what is deleted (line 284).
purge_remove(existing, requested) ==
    LET undeclared(x) == ~In(x, requested) IN Filter(existing, undeclared)

\* native_python_main, lines 248-269 and 289-300, given the two listings: the
\* normalisation of the desired list, check mode's compare, and the list the
\* first loop runs over.
FetchBody(first, gitlab_keys) ==
    /\ LET existing == filter_returned_variables(gitlab_keys)
           requested == Map(module.variables, Normalize)
       IN  /\ before' = first
           /\ compared' = IF module.check_mode
                          THEN compare(requested, existing, module.state)
                          ELSE compared
           /\ IF module.state = "present"
              THEN /\ existing_variables' = existing
                   /\ requested_variables' = requested
                   /\ todo' = add_or_update(requested, existing)
                   /\ pc' = "apply"
              ELSE /\ existing_variables' = Map(existing, Strip)
                   /\ requested_variables' = Map(requested, Strip)
                   /\ todo' = absent_remove(Map(requested, Strip), Map(existing, Strip),
                                            module.purge)
                   /\ pc' = "absent"
    /\ return_value' = EmptyReturn
    /\ UNCHANGED <<module, remote, result, calls, failures, run>>

\* native_python_main, lines 244-269 and 289-300, each of the two listings
\* taken whole.
Fetch ==
    /\ pc = "native_python_main"
    /\ listing = IdleListing
    /\ FetchBody(list_all_instance_variables(remote), list_all_instance_variables(remote))
    /\ requests' = requests \o ListRequests(remote) \o ListRequests(remote)
    /\ UNCHANGED listing

\* Lines 270-275: create_variable for the next desired variable; a create that
\* raises hands over to update_variable.
Apply ==
    /\ pc = "apply"
    /\ todo # <<>>
    /\ \E ok \in CreateOutcomes(Head(todo)) :
        /\ create_variable(Head(todo), ok)
        /\ IF ok
           THEN /\ return_value' = Added(return_value, Head(todo))
                /\ todo' = Tail(todo)
                /\ pc' = pc
           ELSE /\ pc' = "update_variable"
                /\ UNCHANGED <<return_value, todo>>
    /\ UNCHANGED <<module, before, existing_variables, requested_variables, compared,
                   result, run, requests, listing>>

\* update_variable, lines 199-201: the delete of the pair; an error leaves
\* native_python_main.
UpdateDelete ==
    /\ pc = "update_variable"
    /\ \E ok \in DeleteOutcomes(Head(todo)) :
        /\ delete_variable(Head(todo), ok)
        /\ pc' = IF ok THEN "update_create" ELSE "failed"
    /\ UNCHANGED <<module, before, existing_variables, requested_variables, compared,
                   todo, return_value, result, run, requests, listing>>

\* UpdateCreate, going on with the next desired variable when the create raises.
UpdateCreateSwallows ==
    /\ pc = "update_create"
    /\ \E ok \in CreateOutcomes(Head(todo)) :
        /\ create_variable(Head(todo), ok)
        /\ return_value' = IF ok THEN Updated(return_value, Head(todo)) ELSE return_value
        /\ todo' = Tail(todo)
        /\ pc' = "apply"
    /\ UNCHANGED <<module, before, existing_variables, requested_variables, compared,
                   result, run, requests, listing>>

\* update_variable, lines 202-203, and line 277: the create after the delete.
UpdateCreate ==
    /\ pc = "update_create"
    /\ \E ok \in CreateOutcomes(Head(todo)) :
        /\ create_variable(Head(todo), ok)
        /\ IF ok
           THEN /\ return_value' = Updated(return_value, Head(todo))
                /\ todo' = Tail(todo)
                /\ pc' = "apply"
           ELSE /\ pc' = "failed"
                /\ UNCHANGED <<return_value, todo>>
    /\ UNCHANGED <<module, before, existing_variables, requested_variables, compared,
                   result, run, requests, listing>>

\* Lines 279-284: after the loop over add_or_update, purge lists the remote
\* again and picks what it deletes.
ApplyDone ==
    /\ pc = "apply"
    /\ todo = <<>>
    /\ IF module.purge
       THEN /\ existing_variables' =
                   filter_returned_variables(list_all_instance_variables(remote))
            /\ todo' = purge_remove(existing_variables', requested_variables)
            /\ pc' = "purge"
       ELSE /\ pc' = "finish"
            /\ UNCHANGED <<existing_variables, todo>>
    /\ requests' = IF module.purge THEN requests \o ListRequests(remote) ELSE requests
    /\ UNCHANGED <<module, remote, before, requested_variables, compared, return_value,
                   result, calls, failures, run, listing>>

\* for item in ...: if this_gitlab.delete_variable(item): removed.append(item)
RemoveLoop ==
    /\ IF todo = <<>>
       THEN /\ pc' = "finish"
            /\ UNCHANGED <<remote, todo, return_value, calls, failures>>
       ELSE \E ok \in DeleteOutcomes(Head(todo)) :
            /\ delete_variable(Head(todo), ok)
            /\ IF ok
               THEN /\ return_value' = Removed(return_value, Head(todo))
                    /\ todo' = Tail(todo)
                    /\ pc' = pc
               ELSE /\ pc' = "failed"
                    /\ UNCHANGED <<return_value, todo>>
    /\ UNCHANGED <<module, before, existing_variables, requested_variables, compared,
                   result, run, requests, listing>>

\* Lines 285-287.
PurgeRemove ==
    /\ pc = "purge"
    /\ RemoveLoop

\* Lines 301-303 and 306-308.
AbsentRemove ==
    /\ pc = "absent"
    /\ RemoveLoop

\* main, lines 378-381: a real run reports as untouched what the first listing
\* and the last have in common.
RawUntouched(raw, bef, aft, check_mode) ==
    LET kept(x) == In(x, aft)
    IN  IF ~check_mode THEN [raw EXCEPT !.untouched = Filter(bef, kept)] ELSE raw

\* main, lines 378-387: the four lists of names handed to exit_json.
Payload(raw, check_mode) ==
    LET untouched_key_name == IF ~check_mode THEN "name" ELSE "key"
    IN  [added |-> Map(raw.added, LAMBDA x : Get(x, "key")),
         updated |-> Map(raw.updated, LAMBDA x : Get(x, "key")),
         removed |-> Map(raw.removed, LAMBDA x : Get(x, "key")),
         untouched |-> Map(raw.untouched, LAMBDA x : Get(x, untouched_key_name))]

\* Changed, with removed left out of the sum.
ChangedIgnoringRemoved(rv) == Len(rv.added \o rv.updated) > 0

\* Lines 313-314: change.
Changed(rv) == Len(rv.added \o rv.removed \o rv.updated) > 0

\* native_python_main, lines 310-319, and main, lines 376-389.
Finish ==
    /\ pc = "finish"
    /\ LET rv == IF module.check_mode
                 THEN [added |-> compared.added, updated |-> compared.updated,
                       removed |-> return_value.removed, untouched |-> compared.untouched]
                 ELSE return_value
           change == Changed(rv)
           after == list_all_instance_variables(remote)
           raw_return_value == RawUntouched(rv, before, after, module.check_mode)
       IN  /\ return_value' = raw_return_value
           /\ result' = [returned |-> TRUE, changed |-> change,
                         group_variable |-> Payload(raw_return_value, module.check_mode)]
    /\ pc' = "done"
    /\ requests' = requests \o ListRequests(remote)
    /\ UNCHANGED <<module, remote, before, existing_variables, requested_variables,
                   compared, todo, calls, failures, run, listing>>

\* The task is run again with the same parameters. A check-mode run leaves the
\* remote as it found it, so only a real run is followed up.
Rerun ==
    /\ pc = "done"
    /\ ~module.check_mode
    /\ run < MaxRuns
    /\ run' = run + 1
    /\ pc' = "main"
    /\ before' = <<>>
    /\ existing_variables' = <<>>
    /\ requested_variables' = <<>>
    /\ compared' = compare(<<>>, <<>>, "absent")
    /\ todo' = <<>>
    /\ return_value' = EmptyReturn
    /\ result' = NoResult
    /\ calls' = <<>>
    /\ requests' = <<>>
    /\ UNCHANGED <<module, remote, failures, listing>>

\* list_all_instance_variables, lines 173-175, called at line 247 and again at
\* line 250: the first page is asked for.
ListStart ==
    /\ pc = "native_python_main"
    /\ listing.at \in {"idle", "returned"}
    /\ listing.n < 2
    /\ listing' = [listing EXCEPT !.at = "loop", !.page_nb = 1, !.variables = <<>>,
                                  !.vars_page = ListPage(remote, 1)]
    /\ requests' = Append(requests, Request("list", 1))
    /\ UNCHANGED <<module, remote, pc, before, existing_variables, requested_variables,
                   compared, todo, return_value, result, calls, failures, run>>

\* ListLoop, keeping only the page just received.
ListLoopDropsPage ==
    /\ listing.at = "loop"
    /\ Len(listing.vars_page) > 0
    /\ listing' = [listing EXCEPT !.variables = listing.vars_page,
                                  !.page_nb = @ + 1,
                                  !.vars_page = ListPage(remote, listing.page_nb + 1)]
    /\ requests' = Append(requests, Request("list", listing.page_nb + 1))
    /\ UNCHANGED <<module, remote, pc, before, existing_variables, requested_variables,
                   compared, todo, return_value, result, calls, failures, run>>

\* list_all_instance_variables, lines 176-179: one turn of the while loop.
ListLoop ==
    /\ listing.at = "loop"
    /\ Len(listing.vars_page) > 0
    /\ listing' = [listing EXCEPT !.variables = @ \o listing.vars_page,
                                  !.page_nb = @ + 1,
                                  !.vars_page = ListPage(remote, listing.page_nb + 1)]
    /\ requests' = Append(requests, Request("list", listing.page_nb + 1))
    /\ UNCHANGED <<module, remote, pc, before, existing_variables, requested_variables,
                   compared, todo, return_value, result, calls, failures, run>>

\* list_all_instance_variables, lines 176 and 180: the loop ends on an empty
\* page; line 248 keeps the first listing as before.
ListReturn ==
    /\ listing.at = "loop"
    /\ Len(listing.vars_page) = 0
    /\ listing' = [listing EXCEPT !.at = "returned", !.n = @ + 1]
    /\ before' = IF listing.n = 0 THEN listing.variables ELSE before
    /\ UNCHANGED <<module, remote, pc, existing_variables, requested_variables,
                   compared, todo, return_value, result, calls, failures, run, requests>>

\* native_python_main, lines 251-269 and 289-300, once the second listing has
\* returned.
FetchListed ==
    /\ pc = "native_python_main"
    /\ listing.at = "returned"
    /\ listing.n = 2
    /\ FetchBody(before, listing.variables)
    /\ UNCHANGED <<requests, listing>>

(* ------------------------------------------------------------ properties *)
\* The desired list as native_python_main normalises it.
Desired == Map(module.variables, Normalize)

Present == module.state = "present"
RealRun == ~module.check_mode
Listed == pc \notin {"main", "fail_json", "native_python_main"}
Completed == pc = "done"

MatchesPair(d, lst) == KeyScope(d) \in KeyScopes(lst)

\* Desired[i] is the only desired variable of its (key, environment_scope).
OnlyOfItsPair(i) ==
    \A j \in 1..Len(Desired) : KeyScope(Desired[j]) = KeyScope(Desired[i]) => j = i

\* Every desired variable of Desired[i]'s (key, environment_scope) equals it.
NoConflict(i) ==
    \A j \in 1..Len(Desired) :
        KeyScope(Desired[j]) = KeyScope(Desired[i]) => Desired[j] = Desired[i]

\* The remote holds exactly one variable of d's pair, and it is d.
HeldAs(d) ==
    /\ In(d, remote)
    /\ Cardinality({k \in 1..Len(remote) : KeyScope(remote[k]) = KeyScope(d)}) = 1

\* The calls of this run that name d's pair.
CallsFor(d) ==
    {k \in 1..Len(calls) : <<calls[k].key, calls[k].environment_scope>> = KeyScope(d)}

\* C1 as stated: after a real run with state present, every desired variable
\* whose pair is on the remote with other attributes is in updated, not in
\* added, and the remote holds exactly that variable for the pair.
C1_UpdatedHoldsDesired ==
    (Completed /\ RealRun /\ Present) =>
        \A i \in 1..Len(Desired) :
            (MatchesPair(Desired[i], before) /\ ~In(Desired[i], before)) =>
                /\ In(Desired[i], return_value.updated)
                /\ ~In(Desired[i], return_value.added)
                /\ HeldAs(Desired[i])

\* C1 amended: such a variable is in updated and not in added; the remote ends
\* up holding it, as the only variable of its pair, when no other desired
\* variable has the same (key, environment_scope).
C1_UpdatedHoldsDesiredIfOnly ==
    (Completed /\ RealRun /\ Present) =>
        \A i \in 1..Len(Desired) :
            (MatchesPair(Desired[i], before) /\ ~In(Desired[i], before)) =>
                /\ In(Desired[i], return_value.updated)
                /\ ~In(Desired[i], return_value.added)
                /\ OnlyOfItsPair(i) => HeldAs(Desired[i])

C1_Witness ==
    /\ Completed /\ RealRun /\ Present
    /\ \E i \in 1..Len(Desired) :
        /\ OnlyOfItsPair(i)
        /\ MatchesPair(Desired[i], before) /\ ~In(Desired[i], before)
        /\ In(Desired[i], return_value.updated)
        /\ HeldAs(Desired[i])
        /\ Desired[i].masked

\* C2 as stated: with state present, a desired variable equal to a remote
\* variable in all six attributes sees no create and no delete call, stays on
\* the remote as it is, and is in none of added, updated and removed.
C2_IdenticalUntouched ==
    (Present /\ Listed) =>
        \A i \in 1..Len(Desired) :
            In(Desired[i], before) =>
                /\ CallsFor(Desired[i]) = {}
                /\ In(Desired[i], remote)
                /\ Completed =>
                    /\ ~In(Desired[i], return_value.added)
                    /\ ~In(Desired[i], return_value.updated)
                    /\ ~In(Desired[i], return_value.removed)

\* C2 amended: the same, in a real run provided no desired variable of the same
\* (key, environment_scope) has other attributes.
C2_IdenticalUntouchedIfNoConflict ==
    (Present /\ Listed) =>
        \A i \in 1..Len(Desired) :
            (In(Desired[i], before) /\ (module.check_mode \/ NoConflict(i))) =>
                /\ CallsFor(Desired[i]) = {}
                /\ In(Desired[i], remote)
                /\ Completed =>
                    /\ ~In(Desired[i], return_value.added)
                    /\ ~In(Desired[i], return_value.updated)
                    /\ ~In(Desired[i], return_value.removed)

C2_Witness ==
    /\ Completed /\ RealRun /\ Present /\ module.purge
    /\ return_value.removed # <<>>
    /\ \E i \in 1..Len(Desired) :
        In(Desired[i], before) /\ NoConflict(i) /\ In(Desired[i], remote)

\* C3 as stated: with state present, a desired variable whose pair is not on
\* the remote is in added and not in updated, in check mode and in a completed
\* real run, after which the remote holds it.
C3_MissingAdded ==
    (Completed /\ Present) =>
        \A i \in 1..Len(Desired) :
            ~MatchesPair(Desired[i], before) =>
                /\ In(Desired[i], return_value.added)
                /\ ~In(Desired[i], return_value.updated)
                /\ RealRun => HeldAs(Desired[i])

\* C3 amended: the same, in a real run provided no other desired variable has
\* the same (key, environment_scope).
C3_MissingAddedIfOnly ==
    (Completed /\ Present) =>
        \A i \in 1..Len(Desired) :
            (~MatchesPair(Desired[i], before) /\ (module.check_mode \/ OnlyOfItsPair(i))) =>
                /\ In(Desired[i], return_value.added)
                /\ ~In(Desired[i], return_value.updated)
                /\ RealRun => HeldAs(Desired[i])

C3_Witness ==
    /\ Completed /\ Present /\ RealRun
    /\ Len(remote) > Len(before)
    /\ \E i \in 1..Len(Desired) :
        /\ OnlyOfItsPair(i)
        /\ ~MatchesPair(Desired[i], before)
        /\ In(Desired[i], return_value.added)
        /\ HeldAs(Desired[i])

\* C4: after a completed real run with state present and purge, the remote
\* holds exactly the (key, environment_scope) pairs of the desired list.
C4_PurgeLeavesDesiredPairs ==
    (Completed /\ RealRun /\ Present /\ module.purge) =>
        /\ KeyScopes(remote) = KeyScopes(Desired)
        /\ DistinctKeyScope(remote)

C4_Witness ==
    /\ Completed /\ RealRun /\ Present /\ module.purge
    /\ return_value.removed # <<>>
    /\ return_value.added # <<>>
    /\ KeyScopes(remote) = KeyScopes(Desired)

\* C5 as stated: after a real run with state absent and purge false, a variable
\* of the first listing is gone from the remote exactly when its
\* (key, environment_scope) is that of a desired variable, and is otherwise
\* still there as it was.
C5_AbsentDeletesByKeyScope ==
    (Completed /\ RealRun /\ ~Present /\ ~module.purge) =>
        \A k \in 1..Len(before) :
            IF MatchesPair(before[k], Desired)
            THEN ~MatchesPair(before[k], remote)
            ELSE In(before[k], remote)

\* C6: after a completed real run with state absent and purge, the remote is
\* empty and removed lists the variables of the first listing.
C6_AbsentPurgeEmpties ==
    (Completed /\ RealRun /\ ~Present /\ module.purge) =>
        /\ remote = <<>>
        /\ Map(return_value.removed, KeyScope) = Map(before, KeyScope)
        /\ result.group_variable.removed = Map(before, LAMBDA x : x.key)

C6_Witness ==
    /\ Completed /\ RealRun /\ ~Present /\ module.purge
    /\ Len(before) = MaxRemote
    /\ ~MatchesPair(before[1], Desired)
    /\ remote = <<>>
    /\ Len(return_value.removed) = MaxRemote

\* C7: in check mode no create and no delete call reaches the remote, which
\* stays as the first listing found it.
C7_CheckModeFrame ==
    module.check_mode =>
        /\ calls = <<>>
        /\ Listed => remote = before

C7_Witness ==
    /\ module.check_mode /\ Completed
    /\ result.changed
    /\ result.group_variable.added # <<>>
    /\ result.group_variable.removed # <<>>
    /\ remote = before

\* C8 as stated: a check-mode run with state present reports a desired variable
\* as untouched when it equals a remote variable, as updated when only its
\* (key, environment_scope) is on the remote, and as added otherwise.
C8_CheckModeClassifies ==
    (Completed /\ module.check_mode /\ Present) =>
        \A i \in 1..Len(Desired) :
            /\ In(Desired[i], return_value.untouched) <=> In(Desired[i], before)
            /\ In(Desired[i], return_value.updated) <=>
                   (MatchesPair(Desired[i], before) /\ ~In(Desired[i], before))
            /\ In(Desired[i], return_value.added) <=> ~MatchesPair(Desired[i], before)

\* C9: with a desired list of pairwise distinct (key, environment_scope) and
\* state present, a real run that follows a completed real run with the same
\* parameters sends no create and no delete, and reports changed = false with
\* added, updated and removed empty.
C9_SecondRunIdle ==
    (run > 1 /\ RealRun /\ Present /\ DistinctKeyScope(Desired)) =>
        /\ calls = <<>>
        /\ Completed =>
            /\ ~result.changed
            /\ result.group_variable.added = <<>>
            /\ result.group_variable.updated = <<>>
            /\ result.group_variable.removed = <<>>

C9_Witness ==
    /\ run > 1 /\ RealRun /\ Present /\ DistinctKeyScope(Desired) /\ Completed
    /\ Len(Desired) = MaxRequested
    /\ before # <<>>
    /\ \A i \in 1..Len(Desired) : In(Desired[i], before)
    /\ ~result.changed

\* C10 as stated: the payload names variables by key; remote {FOO = "1", scope *}
\* and desired [FOO = "1"] with state present give, in a real run, added,
\* updated and removed empty, untouched = [FOO] and changed = false; and every
\* entry of untouched is the key of a variable of the first listing that the
\* remote still holds unchanged.
C10_PayloadByKey ==
    (Completed /\ RealRun) =>
        /\ (/\ Present
            /\ before = << MkVar("FOO", "*", DefaultAttrs) >>
            /\ module.variables = << MkRaw(MkVar("FOO", "*", DefaultAttrs)) >>)
           => /\ result.group_variable =
                     [added |-> <<>>, updated |-> <<>>, removed |-> <<>>,
                      untouched |-> <<"FOO">>]
              /\ ~result.changed
        /\ \A k \in 1..Len(result.group_variable.untouched) :
              \E v \in 1..Len(before) :
                  /\ before[v].key = result.group_variable.untouched[k]
                  /\ In(before[v], remote)

\* C11: in every run that returns a result, changed is true exactly when
\* added, updated or removed is not empty; a real run that reports changed =
\* false has sent no create and no delete.
C11_ChangedIffListed ==
    Completed =>
        /\ result.changed <=>
               (\/ result.group_variable.added # <<>>
                \/ result.group_variable.updated # <<>>
                \/ result.group_variable.removed # <<>>)
        /\ (RealRun /\ ~result.changed) => calls = <<>>

C11_Witness ==
    /\ Completed /\ RealRun
    /\ result.changed
    /\ result.group_variable.added = <<>>
    /\ result.group_variable.updated = <<>>
    /\ result.group_variable.removed # <<>>

\* C13: with purge false, a variable of the first listing whose
\* (key, environment_scope) is not in the desired list stays on the remote as
\* it is, in every state of the run, aborted runs included.
C13_UndeclaredKept ==
    (Listed /\ ~module.purge) =>
        \A k \in 1..Len(before) :
            ~MatchesPair(before[k], Desired) => In(before[k], remote)

C13_Witness ==
    /\ pc = "failed" /\ ~module.purge /\ Present
    /\ remote # before
    /\ \E k \in 1..Len(before) :
        /\ ~MatchesPair(before[k], Desired)
        /\ before[k].key = Desired[1].key
        /\ In(before[k], remote)

\* C14 as stated: in check mode with state present and purge, removed holds
\* exactly the variables of the remote whose (key, environment_scope) is that
\* of no desired variable.
C14_CheckModeRemoved ==
    (Completed /\ module.check_mode /\ Present /\ module.purge) =>
        LET undeclared(x) == ~MatchesPair(x, Desired)
        IN  return_value.removed = Filter(before, undeclared)

CallPair(c) == <<c.key, c.environment_scope>>

\* calls[k] is the create of update_variable: it follows the successful delete
\* of its pair, which follows the failed create of that pair.
IsRetry(k) ==
    /\ k >= 3
    /\ calls[k].op = "create"
    /\ calls[k - 1].op = "delete" /\ calls[k - 1].ok
    /\ calls[k - 2].op = "create" /\ ~calls[k - 2].ok
    /\ CallPair(calls[k - 1]) = CallPair(calls[k])
    /\ CallPair(calls[k - 2]) = CallPair(calls[k])

\* A failed create that is no retry is followed by the delete and then the
\* create of its pair and does not end the run; any other failed call is the
\* last call of the run, which ends without a result.
FailuresPropagate ==
    /\ \A k \in 1..Len(calls) :
        (~calls[k].ok /\ calls[k].op = "create" /\ ~IsRetry(k)) =>
            /\ k = Len(calls) => pc = "update_variable"
            /\ k < Len(calls) =>
                /\ calls[k + 1].op = "delete"
                /\ CallPair(calls[k + 1]) = CallPair(calls[k])
            /\ (k + 1 < Len(calls) /\ calls[k + 1].ok) => IsRetry(k + 2)
    /\ \A k \in 1..Len(calls) :
        (~calls[k].ok /\ (calls[k].op = "delete" \/ IsRetry(k))) =>
            /\ k = Len(calls)
            /\ pc = "failed"
            /\ result = NoResult
    /\ pc = "failed" => (calls # <<>> /\ ~calls[Len(calls)].ok)

\* C15 as stated: in a real run with state present a failed create leads to
\* the delete and the create of the same variable; a failure of either ends
\* the run at once, and what was created or updated before is still on the
\* remote.
C15_ErrorsAbort ==
    (RealRun /\ Present) =>
        /\ FailuresPropagate
        /\ pc = "failed" =>
            \A i \in 1..Len(Desired) :
                (In(Desired[i], return_value.added) \/ In(Desired[i], return_value.updated))
                    => In(Desired[i], remote)

\* C15 amended: the same, where what stays on the remote is what was created
\* or updated for a (key, environment_scope) the desired list names once.
C15_ErrorsAbortKeepOthers ==
    (RealRun /\ Present) =>
        /\ FailuresPropagate
        /\ pc = "failed" =>
            \A i \in 1..Len(Desired) :
                (/\ OnlyOfItsPair(i)
                 /\ In(Desired[i], return_value.added) \/ In(Desired[i], return_value.updated))
                    => HeldAs(Desired[i])

C15_Witness ==
    /\ RealRun /\ Present /\ pc = "failed"
    /\ IsRetry(Len(calls))
    /\ Len(todo) = 1
    /\ return_value.updated # <<>>
    /\ OnlyOfItsPair(1)
    /\ HeldAs(Desired[1])

\* Between the two calls of update_variable: the failed create and the
\* successful delete of the variable are the last two calls, and the remote
\* holds no variable of its (key, environment_scope).
UpdateWindow ==
    /\ pc = "update_variable" =>
        /\ calls # <<>>
        /\ calls[Len(calls)] = Call("create", Head(todo), FALSE)
    /\ pc = "update_create" =>
        /\ Len(calls) >= 2
        /\ calls[Len(calls)] = Call("delete", Head(todo), TRUE)
        /\ calls[Len(calls) - 1] = Call("create", Head(todo), FALSE)
        /\ ~MatchesPair(Head(todo), remote)

\* A step that changes the remote is one successful call, which adds one
\* variable of a (key, environment_scope) the remote did not hold or takes one
\* away: no step changes the attributes of a variable that stays.
OneCallOneChange ==
    remote' # remote =>
        /\ Len(calls') = Len(calls) + 1
        /\ calls'[Len(calls')].ok
        /\ IF calls'[Len(calls')].op = "create"
           THEN /\ CallPair(calls'[Len(calls')]) \notin KeyScopes(remote)
                /\ Len(remote') = Len(remote) + 1
                /\ SubSeq(remote', 1, Len(remote)) = remote
           ELSE /\ CallPair(calls'[Len(calls')]) \in KeyScopes(remote)
                /\ KeyScopes(remote') = KeyScopes(remote) \ {CallPair(calls'[Len(calls')])}
                /\ \A k \in 1..Len(remote') : In(remote'[k], remote)

\* C16: an update is the delete of the pair and then the create, after a
\* failed create of the variable; between the two the remote holds no variable
\* of that (key, environment_scope); no call changes a variable in place.
C16_UpdateIsDeleteThenCreate ==
    /\ [](RealRun => UpdateWindow)
    /\ [][OneCallOneChange]_vars

C16_Witness ==
    /\ RealRun /\ pc = "update_create"
    /\ MatchesPair(Head(todo), before)
    /\ ~In(Head(todo), before)
    /\ ~MatchesPair(Head(todo), remote)
    /\ Len(remote) = Len(before) - 1

\* C18 as stated: in a real run with state present and purge false, every
\* (key, environment_scope) of the first listing is still on the remote when
\* the run ends, with a result or with an error.
C18_NoPairLost ==
    (RealRun /\ Present /\ ~module.purge /\ pc \in {"done", "failed"}) =>
        KeyScopes(before) \subseteq KeyScopes(remote)

\* C18 amended: the same, except that a run which ends with the error of the
\* create in update_variable has lost the (key, environment_scope) of the
\* variable it was updating, and no other.
C18_NoPairLostButFailedUpdate ==
    (RealRun /\ Present /\ ~module.purge /\ pc \in {"done", "failed"}) =>
        \A k \in 1..Len(before) :
            \/ MatchesPair(before[k], remote)
            \/ /\ pc = "failed"
               /\ IsRetry(Len(calls))
               /\ KeyScope(before[k]) = KeyScope(Head(todo))

C18_Witness ==
    /\ RealRun /\ Present /\ ~module.purge /\ pc = "failed"
    /\ Len(before) = 2
    /\ IsRetry(Len(calls))
    /\ MatchesPair(Head(todo), before)
    /\ ~MatchesPair(Head(todo), remote)
    /\ Len(remote) = 1

\* The desired list of state present has a variable without value.
ValueMissing ==
    /\ Present
    /\ \E i \in 1..Len(module.variables) : module.variables[i].value = NoneVal

\* C12: with state present, a desired variable without value makes the
\* invocation fail before any request is sent: no authentication, no listing,
\* no create, no delete, no result, and the remote stays as it was. With state
\* absent a missing value never makes the invocation fail.
C12_ValidationBeforeAnyCall ==
    /\ [](ValueMissing => pc \in {"main", "fail_json"})
    /\ [](pc = "fail_json" => /\ ValueMissing
                              /\ requests = <<>>
                              /\ calls = <<>>
                              /\ result = NoResult)
    /\ [][ValueMissing => remote' = remote]_vars
    /\ [](~Present => pc # "fail_json")

\* A run of state present failed on a variable without value, next to a desired
\* variable that has one, while the remote holds variables.
C12_Witness ==
    /\ pc = "fail_json"
    /\ remote # <<>>
    /\ \E i \in 1..Len(module.variables) : module.variables[i].value # NoneVal

\* State absent went through with a desired variable without value.
C12_AbsentAccepted ==
    /\ ~Present
    /\ \E i \in 1..Len(module.variables) : module.variables[i].value = NoneVal
    /\ pc = "done"
    /\ result.returned

\* The requests of the call of list_all_instance_variables under way.
ListedPages ==
    SubSeq(requests, Len(requests) - listing.page_nb + 1, Len(requests))

\* Pages 1..k of the remote, one after the other.
RECURSIVE ConcatPages(_, _)
ConcatPages(rem, k) ==
    IF k = 0 THEN <<>> ELSE ConcatPages(rem, k - 1) \o ListPage(rem, k)

\* Where list_all_instance_variables stands: pages 1..page_nb asked for in this
\* order, none of the pages before page_nb empty, variables their
\* concatenation; it returns on the first empty page, with everything the
\* remote holds.
ListInv ==
    listing.at # "idle" =>
        /\ listing.page_nb >= 1
        /\ Len(requests) >= listing.page_nb
        /\ \A k \in 1..listing.page_nb : ListedPages[k] = Request("list", k)
        /\ \A k \in 1..(listing.page_nb - 1) : Len(ListPage(remote, k)) > 0
        /\ listing.vars_page = ListPage(remote, listing.page_nb)
        /\ listing.variables = ConcatPages(remote, listing.page_nb - 1)
        /\ listing.at = "returned" => /\ listing.vars_page = <<>>
                                      /\ listing.variables = remote

\* Nothing is compared and nothing is created or deleted until both listings of
\* native_python_main have returned.
ListedBeforeUse ==
    /\ pc = "native_python_main" => /\ calls = <<>>
                                    /\ todo = <<>>
                                    /\ compared = compare(<<>>, <<>>, "absent")
    /\ pc \in {"apply", "absent"} => /\ listing.at = "returned"
                                     /\ listing.n = 2
                                     /\ before = remote

\* C17: list_all_instance_variables asks for pages 1, 2, 3, ... in this order,
\* stops at the first empty page and returns the concatenation of the pages
\* before it; it returns once it has started; nothing is compared, created or
\* deleted before the listings have returned.
C17_ListingPagesInOrder ==
    /\ [](ListInv /\ ListedBeforeUse)
    /\ (listing.at = "loop") ~> (listing.at = "returned")

\* The second listing returned more than one page of variables, on its third
\* page or later.
C17_Witness ==
    /\ listing.at = "returned"
    /\ listing.n = 2
    /\ listing.page_nb >= 3
    /\ Len(listing.variables) > PageSize
    /\ pc \in {"apply", "absent"}

\* C19 as stated: with a desired list of pairwise distinct
\* (key, environment_scope), no pair is in more than one of the returned
\* added, updated and removed.
C19_ListsDisjoint ==
    (Completed /\ DistinctKeyScope(Desired)) =>
        /\ KeyScopes(return_value.added) \cap KeyScopes(return_value.updated) = {}
        /\ KeyScopes(return_value.added) \cap KeyScopes(return_value.removed) = {}
        /\ KeyScopes(return_value.updated) \cap KeyScopes(return_value.removed) = {}

Next ==
    \/ Validate
    \/ Fetch
    \/ Apply
    \/ UpdateDelete
    \/ UpdateCreate
    \/ ApplyDone
    \/ PurgeRemove
    \/ AbsentRemove
    \/ Finish
    \/ Rerun

Spec == Init /\ [][Next]_vars

\* The start of an invocation, the listings of native_python_main taken page by
\* page.
InitList ==
    /\ Init
    /\ Len(module.variables) <= MaxListed

NextList ==
    \/ Validate
    \/ ListStart
    \/ ListLoop
    \/ ListReturn
    \/ FetchListed

\* The invocation keeps running until it has handed over to the first loop.
SpecList == InitList /\ [][NextList]_vars /\ WF_vars(NextList)

====
